---- MODULE Spec2Model ----
(***************************************************************************)
(* Model of the AI Photo Studio application: the App component (upload,   *)
(* settings, prompt synthesis, image generation), the ImageCropModal      *)
(* component (crop region, zoom, crop-and-save) and the Gemini service    *)
(* (error translation, response handling).                                *)
(*                                                                         *)
(* One action is one browser task: an event handler together with the     *)
(* re-render and the effects that React runs for the state it set, or the *)
(* continuation of an async function after its await settles.             *)
(***************************************************************************)
EXTENDS Integers, Sequences, FiniteSets, TLC

VARIABLES
  \* App state (useState hooks of App)
  productImage, originalProductImage, isCropModalOpen, styleReferenceImage,
  aspectRatio, lightingStyle, cameraPerspective,
  prompt, generatedImage, isGeneratingPrompt, isGeneratingImage, error,
  \* ImageCropModal state (useState hooks and the <img> element behind imgRef)
  crop, isSaving, scale, imgSize, img,
  \* async functions suspended at their await
  reads,        \* handleFileUpload awaiting fileToBase64
  promptCalls,  \* updatePrompt awaiting generateDescriptivePrompt
  editCalls,    \* handleGenerateImage awaiting editProductImage
  saveCalls,    \* handleSaveClick awaiting getCroppedImg
  \* who stored the prompt (observation only, no handler reads it)
  promptFrom

appVars == <<productImage, originalProductImage, isCropModalOpen, styleReferenceImage,
             aspectRatio, lightingStyle, cameraPerspective,
             prompt, generatedImage, isGeneratingPrompt, isGeneratingImage, error>>
modalVars == <<crop, isSaving, scale, imgSize, img>>
asyncVars == <<reads, promptCalls, editCalls, saveCalls>>
vars == <<appVars, modalVars, asyncVars, promptFrom>>

\* JavaScript null / undefined
Null == [null |-> TRUE]

-----------------------------------------------------------------------------
(* Bounds of the model *)

\* fileToBase64 reads that may be pending at once
MaxReads == 1
\* generateDescriptivePrompt calls that may be pending at once
MaxPromptCalls == 2
\* editProductImage calls the model lets be pending at once
MaxEditCalls == 2
\* getCroppedImg operations the model lets be pending at once
MaxSaveCalls == 2

-----------------------------------------------------------------------------
(* Program constants *)

MAX_FILE_SIZE_MB == 10
MAX_FILE_SIZE_BYTES == MAX_FILE_SIZE_MB * 1024 * 1024
SUPPORTED_MIME_TYPES == {"image/jpeg", "image/png", "image/webp"}

MiB == 1024 * 1024

\* enum AspectRatio, and the members of LightingStyle and CameraPerspective
\* that the model lets the user select
AspectRatios == {"1:1", "3:4", "16:9"}
LightingStyles == {"Studio Lighting", "Natural Light"}
CameraPerspectives == {"Eye-level", "High-angle"}

\* getAspectRatioValue: the numeric ratio <<numerator, denominator>>
getAspectRatioValue(ar) ==
  CASE ar = "1:1" -> <<1, 1>>
    [] ar = "3:4" -> <<3, 4>>
    [] ar = "16:9" -> <<16, 9>>
    [] OTHER -> <<1, 1>>

-----------------------------------------------------------------------------
(* Numbers: a JavaScript number is modelled by the rational <<n, d>>, d > 0, *)
(* in lowest terms (rounding of doubles is not modelled).                   *)

RECURSIVE Gcd(_, _)
Gcd(a, b) == IF b = 0 THEN a ELSE Gcd(b, a % b)

Abs(a) == IF a < 0 THEN -a ELSE a

Norm(n, d) ==
  LET g == Gcd(Abs(n), Abs(d))
      s == IF d < 0 THEN -1 ELSE 1
  IN  <<(s * n) \div g, (s * d) \div g>>

R(n) == <<n, 1>>
RAdd(a, b) == Norm(a[1] * b[2] + b[1] * a[2], a[2] * b[2])
RSub(a, b) == Norm(a[1] * b[2] - b[1] * a[2], a[2] * b[2])
RMul(a, b) == Norm(a[1] * b[1], a[2] * b[2])
RDiv(a, b) == Norm(a[1] * b[2], a[2] * b[1])
RLess(a, b) == a[1] * b[2] < b[1] * a[2]
RZero(a) == a[1] = 0
\* Math.floor
Floor(a) == a[1] \div a[2]
\* rounding to the nearest integer, as the integer width of a laid-out element
Round(a) == (2 * a[1] + a[2]) \div (2 * a[2])

-----------------------------------------------------------------------------
(* Crop geometry (react-image-crop's helpers as ImageCropModal calls them) *)

\* convertToPixelCrop of a '%' crop
convertToPixelCrop(c, cw, ch) ==
  [unit |-> "px",
   x |-> RDiv(RMul(c.x, R(cw)), R(100)),
   y |-> RDiv(RMul(c.y, R(ch)), R(100)),
   width |-> RDiv(RMul(c.width, R(cw)), R(100)),
   height |-> RDiv(RMul(c.height, R(ch)), R(100))]

\* convertToPercentCrop of a 'px' crop
convertToPercentCrop(c, cw, ch) ==
  [unit |-> "%",
   x |-> RMul(RDiv(c.x, R(cw)), R(100)),
   y |-> RMul(RDiv(c.y, R(ch)), R(100)),
   width |-> RMul(RDiv(c.width, R(cw)), R(100)),
   height |-> RMul(RDiv(c.height, R(ch)), R(100))]

\* makeAspectCrop({unit: '%', width: w}, aspect, cw, ch), on the pixel crop p:
\* the height follows from the width, then the rectangle is shrunk to the
\* container, first in height and then in width
HeightFromWidth(p, aspect) ==
  IF RZero(p.width) THEN p ELSE [p EXCEPT !.height = RDiv(p.width, aspect)]
ShrinkToHeight(p, aspect, ch) ==
  IF RLess(R(ch), RAdd(p.y, p.height))
  THEN [p EXCEPT !.height = RSub(R(ch), p.y), !.width = RMul(RSub(R(ch), p.y), aspect)]
  ELSE p
ShrinkToWidth(p, aspect, cw) ==
  IF RLess(R(cw), RAdd(p.x, p.width))
  THEN [p EXCEPT !.width = RSub(R(cw), p.x), !.height = RDiv(RSub(R(cw), p.x), aspect)]
  ELSE p
makeAspectCrop(w, aspect, cw, ch) ==
  convertToPercentCrop(
    ShrinkToWidth(
      ShrinkToHeight(
        HeightFromWidth(
          convertToPixelCrop(
            [unit |-> "%", x |-> R(0), y |-> R(0), width |-> w, height |-> R(0)], cw, ch),
          aspect),
        aspect, ch),
      aspect, cw),
    cw, ch)

\* centerCrop of a '%' crop
Centered(p, cw, ch) ==
  [p EXCEPT !.x = RDiv(RSub(R(cw), p.width), R(2)),
            !.y = RDiv(RSub(R(ch), p.height), R(2))]
centerCrop(c, cw, ch) ==
  convertToPercentCrop(Centered(convertToPixelCrop(c, cw, ch), cw, ch), cw, ch)

\* the crop that onImageLoad and the [aspect] effect compute
InitialCrop(ar, nw, nh) ==
  centerCrop(makeAspectCrop(R(90), getAspectRatioValue(ar), nw, nh), nw, nh)

\* an onImageLoad that falls back to a default rectangle for a picture
\* without size
CropOnLoadWithFallback(c, ar, nw, nh) ==
  IF nw > 0 /\ nh > 0
  THEN InitialCrop(ar, nw, nh)
  ELSE [unit |-> "%", x |-> R(5), y |-> R(5), width |-> R(90), height |-> R(90)]
\* onImageLoad: the crop after the load event, c being the crop before it
CropOnLoad(c, ar, nw, nh) ==
  IF nw > 0 /\ nh > 0 THEN InitialCrop(ar, nw, nh) ELSE c

\* an [aspect] effect that keeps a rectangle the user has drawn
CropOnAspectKeepingDrag(c, ar, nw, nh) ==
  IF c # Null THEN c ELSE IF nw > 0 /\ nh > 0 THEN InitialCrop(ar, nw, nh) ELSE c
\* the [aspect] effect: the crop after aspect changed, c being the crop before
CropOnAspect(c, ar, nw, nh) ==
  IF nw > 0 /\ nh > 0 THEN InitialCrop(ar, nw, nh) ELSE c

\* crop?.width && crop?.height
CropUsable(c) == c # Null /\ ~RZero(c.width) /\ ~RZero(c.height)

\* image.width / image.height of the <img>: the laid-out size, an integer.
\* Before the first load of a dialog the layout decides it (im.layout); once
\* imgSize is set the style gives imgSize * scale.
RenderedSize(im, size, sc) ==
  IF size[1] # 0
  THEN <<Round(RMul(R(size[1]), sc)), Round(RMul(R(size[2]), sc))>>
  ELSE im.layout

\* getCroppedImg up to canvas.toBlob: the canvas size and the source rectangle
\* handed to drawImage, for an image rendered at <<w, h>>
CroppedCanvas(im, c, rendered) ==
  IF rendered[1] = 0 \/ rendered[2] = 0
  THEN [width |-> 0, height |-> 0, sx |-> R(0), sy |-> R(0), sw |-> R(0), sh |-> R(0)]
  ELSE LET scaleX == Norm(im.naturalWidth, rendered[1])
           scaleY == Norm(im.naturalHeight, rendered[2])
       IN  [width |-> Floor(RMul(c.width, scaleX)),
            height |-> Floor(RMul(c.height, scaleY)),
            sx |-> RMul(c.x, scaleX), sy |-> RMul(c.y, scaleY),
            sw |-> RMul(c.width, scaleX), sh |-> RMul(c.height, scaleY)]

-----------------------------------------------------------------------------
(* geminiService *)

\* The phrases handleGeminiError looks for. An error message is modelled by
\* its text and by the occurrences of these phrases in it, each in lower case
\* or with capitals.
Phrases == {"api key not valid", "rate limit", "did not return an image"}
Occ(p, caps) == [phrase |-> p, caps |-> caps]

\* String.prototype.toLowerCase on the occurrences of a message
toLowerCase(has) == {Occ(o.phrase, FALSE) : o \in has}
\* String.prototype.includes for one of the phrases
includes(has, p) == Occ(p, FALSE) \in has

InvalidKeyMessage == [msg |-> "Invalid API Key. Please check if the API key is configured correctly."]
RateLimitMessage == [msg |-> "You have exceeded your API request limit. Please wait and try again later."]
UnexpectedMessage(context) == [unexpected |-> context]

\* new Error(message)
NewError(message) == [isError |-> TRUE, message |-> message]

\* a handleGeminiError that looks for the phrases as they are written
handleGeminiErrorCaseSensitive(thrown, context) ==
  IF thrown.isError
  THEN IF includes(thrown.message.has, "api key not valid") THEN NewError(InvalidKeyMessage)
       ELSE IF includes(thrown.message.has, "rate limit") THEN NewError(RateLimitMessage)
       ELSE IF includes(thrown.message.has, "did not return an image") THEN thrown
       ELSE NewError(UnexpectedMessage(context))
  ELSE NewError(UnexpectedMessage(context))

\* handleGeminiError(error, context): the Error that the service rethrows.
\* A thrown value is [isError, message], message = [text, has] for an Error.
handleGeminiError(thrown, context) ==
  IF thrown.isError
  THEN LET message == toLowerCase(thrown.message.has)
       IN  IF includes(message, "api key not valid") THEN NewError(InvalidKeyMessage)
           ELSE IF includes(message, "rate limit") THEN NewError(RateLimitMessage)
           ELSE IF includes(message, "did not return an image") THEN thrown
           ELSE NewError(UnexpectedMessage(context))
  ELSE NewError(UnexpectedMessage(context))

\* the errors the service raises itself
EmptyPromptError ==
  NewError([text |-> "The model returned an empty prompt.", has |-> {}])
NoImageError ==
  NewError([text |-> "The AI model did not return an image. Try adjusting your prompt or using a different image.",
            has |-> {Occ("did not return an image", FALSE)}])
\* reading .parts of a candidate without content
ContentTypeError ==
  NewError([text |-> "Cannot read properties of undefined (reading 'parts')", has |-> {}])

\* Prompt texts. The remote model's text for a request is an input of the
\* model: PromptText(call) is a text that names the request it answers,
\* SomePrompt a text that does not; BlankText is white space only.
PromptText(call) ==
  [kind |-> "synth", aspectRatio |-> call.aspectRatio, lightingStyle |-> call.lightingStyle,
   cameraPerspective |-> call.cameraPerspective, styleImage |-> call.styleImage]
SomePrompt == [kind |-> "some"]
BlankText == [kind |-> "blank"]
EmptyPrompt == [kind |-> "empty"]
ManualPrompt == [kind |-> "manual"]

\* String.prototype.trim
trim(text) == IF text = BlankText THEN EmptyPrompt ELSE text

\* a generateDescriptivePrompt that returns (response.text || '').trim()
generateDescriptivePromptLenient(outcome) ==
  IF "threw" \in DOMAIN outcome
  THEN [ok |-> FALSE, error |-> handleGeminiError(outcome.threw, "prompt generation")]
  ELSE [ok |-> TRUE,
        value |-> IF "text" \in DOMAIN outcome THEN trim(outcome.text) ELSE EmptyPrompt]

\* generateDescriptivePrompt after its await. outcome is what generateContent
\* did: [threw |-> value], or a response, a record that may have a text.
\* The result is [ok |-> TRUE, value |-> prompt] or [ok |-> FALSE, error |-> Error].
generateDescriptivePrompt(outcome) ==
  IF "threw" \in DOMAIN outcome
  THEN [ok |-> FALSE, error |-> handleGeminiError(outcome.threw, "prompt generation")]
  ELSE IF "text" \notin DOMAIN outcome \/ outcome.text = EmptyPrompt
  THEN [ok |-> FALSE, error |-> handleGeminiError(EmptyPromptError, "prompt generation")]
  ELSE [ok |-> TRUE, value |-> trim(outcome.text)]

\* a part of a response: [text] or [inlineData |-> [mimeType, data]]
\* mimeType.startsWith('image/'), over the MIME types the model uses
startsWithImage(mimeType) == mimeType \in {"image/png", "image/jpeg", "image/webp"}

IsImagePart(part) ==
  "inlineData" \in DOMAIN part /\ startsWithImage(part.inlineData.mimeType)

RECURSIVE FirstImage(_)
FirstImage(parts) ==
  IF parts = <<>> THEN Null
  ELSE IF IsImagePart(Head(parts)) THEN Head(parts)
  ELSE FirstImage(Tail(parts))

\* `data:${mimeType};base64,${data}`
DataUrl(mimeType, data) == [url |-> data, mimeType |-> mimeType]

\* editProductImage after its await. outcome is [threw |-> value] or
\* a response: a record that may have candidates, a sequence of records that
\* may have content, [parts |-> sequence].
editProductImage(outcome) ==
  IF "threw" \in DOMAIN outcome
  THEN [ok |-> FALSE, error |-> handleGeminiError(outcome.threw, "image generation")]
  ELSE IF "candidates" \in DOMAIN outcome /\ Len(outcome.candidates) > 0
  THEN IF "content" \notin DOMAIN outcome.candidates[1]
       THEN [ok |-> FALSE, error |-> handleGeminiError(ContentTypeError, "image generation")]
       ELSE LET part == FirstImage(outcome.candidates[1].content.parts)
            IN  IF part # Null
                THEN [ok |-> TRUE,
                      value |-> DataUrl(part.inlineData.mimeType, part.inlineData.data)]
                ELSE [ok |-> FALSE,
                      error |-> handleGeminiError(NoImageError, "image generation")]
  ELSE [ok |-> FALSE, error |-> handleGeminiError(NoImageError, "image generation")]

-----------------------------------------------------------------------------
(* Inputs of the model *)

\* A file is [type, size, naturalWidth, naturalHeight]: its declared MIME
\* type, its size in bytes and the size of the picture its bytes decode to.
JpegFile == [type |-> "image/jpeg", size |-> 5 * MiB, naturalWidth |-> 1000, naturalHeight |-> 1000]
GifFile == [type |-> "image/gif", size |-> 5 * MiB, naturalWidth |-> 1000, naturalHeight |-> 1000]
BigFile == [type |-> "image/png", size |-> 15 * MiB, naturalWidth |-> 1000, naturalHeight |-> 1000]
AppFiles == {JpegFile, GifFile, BigFile}
UploadTypes == {"product", "style"}

\* the size the layout gives the <img> of a freshly opened dialog (65vh by
\* 100% of the dialog), as a fraction of the natural size
LayoutFactors == {<<1, 2>>}

\* what the user can type into the prompt box
TypedPrompts == {EmptyPrompt, ManualPrompt}

\* rectangles ReactCrop reports while the user drags (percent crops)
PercentCrop(x, y, w, h) == [unit |-> "%", x |-> R(x), y |-> R(y), width |-> R(w), height |-> R(h)]
DragCrops == {PercentCrop(10, 10, 0, 0)}

\* positions of the zoom slider (min 1, max 3, step 0.05)
ZoomValues == {R(3)}

\* pictures of several shapes for the crop dialog; EmptyFile decodes to a
\* picture without intrinsic size
WideFile == [type |-> "image/jpeg", size |-> 5 * MiB, naturalWidth |-> 1600, naturalHeight |-> 900]
EmptyFile == [type |-> "image/png", size |-> 5 * MiB, naturalWidth |-> 0, naturalHeight |-> 0]
CropFiles == {JpegFile, WideFile, EmptyFile}

\* rectangles ReactCrop reports for an image of nw x nh with the aspect locked
\* to ar: a pointer-down without movement (no area), the largest rectangle of
\* that aspect drawn from the top left corner, and a very small one
ClickCrop == PercentCrop(10, 10, 0, 0)
LargestCrop(ar, nw, nh) == makeAspectCrop(R(100), getAspectRatioValue(ar), nw, nh)
SmallCrop(ar, nw, nh) == makeAspectCrop(<<1, 8>>, getAspectRatioValue(ar), nw, nh)
CropDrags(ar, nw, nh) ==
  IF nw > 0 /\ nh > 0
  THEN {ClickCrop, LargestCrop(ar, nw, nh), SmallCrop(ar, nw, nh)}
  ELSE {ClickCrop}

\* both ends of the zoom slider
CropZooms == {R(1), R(3)}

\* values that generateContent may throw
RateLimitError == NewError([text |-> "429 Rate Limit exceeded", has |-> {Occ("rate limit", TRUE)}])
NetworkFailure == [isError |-> FALSE, message |-> Null]
Thrown == {RateLimitError, NetworkFailure}

\* every Error that generateContent may throw, told apart by which of the
\* phrases its message holds and how each is written
PhraseForms == [Phrases -> {"absent", "lower", "caps"}]
ErrorWith(form) ==
  NewError([text |-> form,
            has |-> {Occ(p, form[p] = "caps") : p \in {q \in Phrases : form[q] # "absent"}}])
ThrownValues == {ErrorWith(form) : form \in PhraseForms} \cup {NetworkFailure}

\* outcomes of a prompt request whose response, if it has a text, has one of texts
PromptOutcomes(texts) ==
  {[text |-> t] : t \in texts} \cup {[candidates |-> <<>>]} \cup {[threw |-> t] : t \in Thrown}

\* outcomes of the image request
TextPart == [text |-> "Here is your image"]
ImagePart(mimeType, data) == [inlineData |-> [mimeType |-> mimeType, data |-> data]]
Candidate(parts) == [content |-> [parts |-> parts]]
\* a candidate that was stopped before it had content, and a response that was
\* blocked as a whole
StoppedCandidate == [finishReason |-> "SAFETY"]
BlockedResponse == [promptFeedback |-> [blockReason |-> "SAFETY"]]
EditOutcomes ==
  {[candidates |-> <<Candidate(<<TextPart, ImagePart("image/png", "A"), ImagePart("image/jpeg", "B")>>)>>],
   [candidates |-> <<Candidate(<<ImagePart("image/jpeg", "B")>>)>>],
   [candidates |-> <<Candidate(<<TextPart>>)>>],
   [candidates |-> <<Candidate(<<TextPart>>), Candidate(<<ImagePart("image/png", "A")>>)>>],
   [candidates |-> <<StoppedCandidate>>],
   [candidates |-> <<>>],
   BlockedResponse}
  \cup {[threw |-> t] : t \in {RateLimitError}}

-----------------------------------------------------------------------------
(* App: messages, rendering and effects *)

UnsupportedTypeMessage == [msg |-> "Unsupported file type. Please upload a JPEG, PNG, or WEBP image."]
FileTooLargeMessage == [msg |-> "File is too large. Please upload an image smaller than 10MB."]
LoadErrorMessage(type) == [loading |-> type]
MissingInputMessage == [msg |-> "Please upload and crop a product image, and ensure a prompt is generated."]

\* error.message || fallback
MessageOr(message, fallback) == IF message = Null THEN fallback ELSE message
UnknownPromptMessage == [msg |-> "An unknown error occurred while generating the prompt."]
UnknownImageMessage == [msg |-> "An unknown error occurred while generating the image."]

RemoveAt(seq, i) == SubSeq(seq, 1, i - 1) \o SubSeq(seq, i + 1, Len(seq))

\* a type check that lets every type through
IsSupportedAlways(file) == TRUE
\* SUPPORTED_MIME_TYPES.includes(file.type)
IsSupported(file) == file.type \in SUPPORTED_MIME_TYPES
\* a size check that also refuses a file of exactly the limit
IsTooLargeInclusive(file) == file.size >= MAX_FILE_SIZE_BYTES
\* file.size > MAX_FILE_SIZE_BYTES
IsTooLarge(file) == file.size > MAX_FILE_SIZE_BYTES

\* a dependency list that leaves out cameraPerspective
PromptDepsWithoutCamera == <<aspectRatio, lightingStyle, "Eye-level", styleReferenceImage>>
\* the dependency list of the updatePrompt effect
PromptDeps == <<aspectRatio, lightingStyle, cameraPerspective, styleReferenceImage>>

\* updatePrompt's call of generateDescriptivePrompt: the arguments it passes.
\* Observation only: raced records that a call pending together with this one
\* has already stored its prompt, superseded that such a call was started
\* after this one.
PromptCall(deps) ==
  [aspectRatio |-> deps[1], lightingStyle |-> deps[2], cameraPerspective |-> deps[3],
   styleImage |-> deps[4], raced |-> FALSE, superseded |-> FALSE]

\* an effect that cancels the pending calls when it starts a new one
ReplacingPromptCall(calls, call) == <<call>>
\* a new pending call joins the ones already pending
WithPromptCall(calls, call) == Append(calls, call)

\* an updatePrompt that drops the result of a call started before one that
\* has already stored its prompt
PromptAfterIfCurrent(call, generatedPrompt) ==
  IF call.superseded THEN prompt ELSE generatedPrompt
\* setPrompt(generatedPrompt): what the call's result makes of the prompt
PromptAfter(call, generatedPrompt) == generatedPrompt

\* The render after a task, for the state of updatePrompt: calls, err and busy
\* are promptCalls, error and isGeneratingPrompt as the task left them. When a
\* dependency changed the effect runs updatePrompt up to its await.
RunPromptEffect(calls, err, busy) ==
  IF PromptDeps' # PromptDeps
  THEN /\ Len(calls) < MaxPromptCalls
       /\ promptCalls' = WithPromptCall(calls, PromptCall(PromptDeps'))
       /\ isGeneratingPrompt' = TRUE
       /\ error' = Null
  ELSE /\ promptCalls' = calls
       /\ isGeneratingPrompt' = busy
       /\ error' = err

\* the dialog is rendered: isCropModalOpen && originalProductImage
Mounted == isCropModalOpen /\ originalProductImage # Null

\* a dialog that has just been mounted: its <img> starts to load imageSrc
\* (src is the file asked for, shown the file whose picture the element holds)
FreshImg(src) ==
  [src |-> src, shown |-> Null, loading |-> TRUE, naturalWidth |-> 0, naturalHeight |-> 0,
   layout |-> <<0, 0>>]

\* The render after a task, for the dialog: c, sv, sc, sz and im are crop,
\* isSaving, scale, imgSize and the <img> as the task left them, calls the
\* pending getCroppedImg operations. Unmounting drops the dialog's state (a
\* pending operation goes on, its dialog gone); mounting starts a new dialog;
\* a new imageSrc makes the <img> load again; a new aspect runs the [aspect]
\* effect.
RenderModal(c, sv, sc, sz, im, calls) ==
  IF ~Mounted'
  THEN /\ crop' = Null /\ isSaving' = FALSE /\ scale' = R(1) /\ imgSize' = <<0, 0>>
       /\ img' = Null
       /\ saveCalls' = [i \in DOMAIN calls |-> [calls[i] EXCEPT !.live = FALSE]]
  ELSE IF ~Mounted
  THEN /\ crop' = Null /\ isSaving' = FALSE /\ scale' = R(1) /\ imgSize' = <<0, 0>>
       /\ img' = FreshImg(originalProductImage'.dataUrl)
       /\ saveCalls' = calls
  ELSE /\ isSaving' = sv /\ scale' = sc /\ imgSize' = sz
       /\ img' = IF originalProductImage'.dataUrl # originalProductImage.dataUrl
                 THEN [im EXCEPT !.src = originalProductImage'.dataUrl, !.loading = TRUE]
                 ELSE im
       /\ crop' = IF aspectRatio' # aspectRatio
                  THEN CropOnAspect(c, aspectRatio', im.naturalWidth, im.naturalHeight)
                  ELSE c
       /\ saveCalls' = calls

\* the render after a task that touched neither updatePrompt's state nor the dialog's
RenderSame ==
  /\ RunPromptEffect(promptCalls, error, isGeneratingPrompt)
  /\ RenderModal(crop, isSaving, scale, imgSize, img, saveCalls)

-----------------------------------------------------------------------------
(* Initial state: App is mounted, its first render done and the updatePrompt *)
(* effect has run up to its await.                                           *)

Init ==
  /\ productImage = Null /\ originalProductImage = Null /\ isCropModalOpen = FALSE
  /\ styleReferenceImage = Null
  /\ aspectRatio = "1:1" /\ lightingStyle = "Studio Lighting" /\ cameraPerspective = "Eye-level"
  /\ prompt = EmptyPrompt /\ generatedImage = Null
  /\ isGeneratingPrompt = TRUE /\ isGeneratingImage = FALSE /\ error = Null
  /\ crop = Null /\ isSaving = FALSE /\ scale = R(1) /\ imgSize = <<0, 0>> /\ img = Null
  /\ reads = <<>>
  /\ promptCalls = <<PromptCall(PromptDeps)>>
  /\ editCalls = <<>> /\ saveCalls = <<>>
  /\ promptFrom = [by |-> "useState"]

-----------------------------------------------------------------------------
(* App: uploads *)

\* handleFileUpload(file, type) up to its await (or to its early return)
HandleFileUpload(file, type) ==
  LET rejected == ~IsSupported(file) \/ IsTooLarge(file)
      err == IF ~IsSupported(file) THEN UnsupportedTypeMessage
             ELSE IF IsTooLarge(file) THEN FileTooLargeMessage
             ELSE Null
  IN  /\ rejected \/ Len(reads) < MaxReads
      /\ reads' = IF rejected THEN reads ELSE Append(reads, [type |-> type, file |-> file])
      /\ UNCHANGED <<productImage, originalProductImage, isCropModalOpen, styleReferenceImage,
                     aspectRatio, lightingStyle, cameraPerspective, prompt, generatedImage,
                     isGeneratingImage, editCalls>>
      /\ RunPromptEffect(promptCalls, err, isGeneratingPrompt)
      /\ RenderModal(crop, isSaving, scale, imgSize, img, saveCalls)
      /\ UNCHANGED promptFrom

\* a new object for the style image: React compares state by identity, so the
\* model tells the new object from the one it replaces
NewStyleImage(file) ==
  [base64 |-> file, mimeType |-> file.type,
   obj |-> IF styleReferenceImage = Null THEN 0 ELSE 1 - styleReferenceImage.obj]

\* handleFileUpload after fileToBase64 resolved
ReadResolve(i) ==
  LET read == reads[i]
  IN  /\ reads' = RemoveAt(reads, i)
      /\ IF read.type = "product"
         THEN /\ originalProductImage' = [dataUrl |-> read.file, mimeType |-> read.file.type]
              /\ productImage' = Null
              /\ isCropModalOpen' = TRUE
              /\ UNCHANGED styleReferenceImage
         ELSE /\ styleReferenceImage' = NewStyleImage(read.file)
              /\ UNCHANGED <<originalProductImage, productImage, isCropModalOpen>>
      /\ UNCHANGED <<aspectRatio, lightingStyle, cameraPerspective, prompt, generatedImage,
                     isGeneratingImage, editCalls>>
      /\ RunPromptEffect(promptCalls, error, isGeneratingPrompt)
      /\ RenderModal(crop, isSaving, scale, imgSize, img, saveCalls)
      /\ UNCHANGED promptFrom

\* handleFileUpload after fileToBase64 rejected (reader.onerror)
ReadReject(i) ==
  LET read == reads[i]
  IN  /\ reads' = RemoveAt(reads, i)
      /\ UNCHANGED <<productImage, originalProductImage, isCropModalOpen, styleReferenceImage,
                     aspectRatio, lightingStyle, cameraPerspective, prompt, generatedImage,
                     isGeneratingImage, editCalls>>
      /\ RunPromptEffect(promptCalls, LoadErrorMessage(read.type), isGeneratingPrompt)
      /\ RenderModal(crop, isSaving, scale, imgSize, img, saveCalls)
      /\ UNCHANGED promptFrom

\* handleClearStyleImage; its button is rendered while there is a style image
HandleClearStyleImage ==
  /\ styleReferenceImage # Null
  /\ styleReferenceImage' = Null
  /\ UNCHANGED <<productImage, originalProductImage, isCropModalOpen,
                 aspectRatio, lightingStyle, cameraPerspective, prompt, generatedImage,
                 isGeneratingImage, reads, editCalls>>
  /\ RenderSame
  /\ UNCHANGED promptFrom

\* the "Change Crop" button, rendered while there is a product image
ChangeCrop ==
  /\ productImage # Null
  /\ isCropModalOpen' = TRUE
  /\ UNCHANGED <<productImage, originalProductImage, styleReferenceImage,
                 aspectRatio, lightingStyle, cameraPerspective, prompt, generatedImage,
                 isGeneratingImage, reads, editCalls>>
  /\ RenderSame
  /\ UNCHANGED promptFrom

\* the dismiss button of the error banner
DismissError ==
  /\ error # Null
  /\ UNCHANGED <<productImage, originalProductImage, isCropModalOpen, styleReferenceImage,
                 aspectRatio, lightingStyle, cameraPerspective, prompt, generatedImage,
                 isGeneratingImage, reads, editCalls>>
  /\ RunPromptEffect(promptCalls, Null, isGeneratingPrompt)
  /\ RenderModal(crop, isSaving, scale, imgSize, img, saveCalls)
  /\ UNCHANGED promptFrom

-----------------------------------------------------------------------------
(* App: settings and prompt *)

\* the three select controls; a select reports a value other than the shown one
SetAspectRatio(v) ==
  /\ v # aspectRatio
  /\ aspectRatio' = v
  /\ UNCHANGED <<productImage, originalProductImage, isCropModalOpen, styleReferenceImage,
                 lightingStyle, cameraPerspective, prompt, generatedImage,
                 isGeneratingImage, reads, editCalls>>
  /\ RenderSame
  /\ UNCHANGED promptFrom

SetLightingStyle(v) ==
  /\ v # lightingStyle
  /\ lightingStyle' = v
  /\ UNCHANGED <<productImage, originalProductImage, isCropModalOpen, styleReferenceImage,
                 aspectRatio, cameraPerspective, prompt, generatedImage,
                 isGeneratingImage, reads, editCalls>>
  /\ RenderSame
  /\ UNCHANGED promptFrom

SetCameraPerspective(v) ==
  /\ v # cameraPerspective
  /\ cameraPerspective' = v
  /\ UNCHANGED <<productImage, originalProductImage, isCropModalOpen, styleReferenceImage,
                 aspectRatio, lightingStyle, prompt, generatedImage,
                 isGeneratingImage, reads, editCalls>>
  /\ RenderSame
  /\ UNCHANGED promptFrom

\* the prompt textarea
EditPrompt(text) ==
  /\ text # prompt
  /\ prompt' = text
  /\ UNCHANGED <<productImage, originalProductImage, isCropModalOpen, styleReferenceImage,
                 aspectRatio, lightingStyle, cameraPerspective, generatedImage,
                 isGeneratingImage, reads, editCalls>>
  /\ RenderSame
  /\ promptFrom' = [by |-> "textarea"]

\* an updatePrompt that leaves a failed request pending, to be sent again
SettledRetrying(calls, i, stored) ==
  IF stored
  THEN RemoveAt([j \in DOMAIN calls |->
                   [calls[j] EXCEPT !.raced = TRUE,
                                    !.superseded = calls[j].superseded \/ j < i]], i)
  ELSE calls
\* the pending calls after call i stored its prompt (with what the others
\* have now seen) or failed
Settled(calls, i, stored) ==
  RemoveAt([j \in DOMAIN calls |->
              IF stored
              THEN [calls[j] EXCEPT !.raced = TRUE,
                                    !.superseded = calls[j].superseded \/ j < i]
              ELSE calls[j]], i)

\* updatePrompt after its await, for the pending call i and what the remote
\* request did
PromptSettle(i, outcome) ==
  LET call == promptCalls[i]
      res == generateDescriptivePrompt(outcome)
      rest == Settled(promptCalls, i, res.ok)
  IN  /\ prompt' = IF res.ok THEN PromptAfter(call, res.value) ELSE prompt
      /\ UNCHANGED <<productImage, originalProductImage, isCropModalOpen, styleReferenceImage,
                     aspectRatio, lightingStyle, cameraPerspective, generatedImage,
                     isGeneratingImage, reads, editCalls>>
      /\ RunPromptEffect(rest,
                         IF res.ok THEN error
                         ELSE MessageOr(res.error.message, UnknownPromptMessage),
                         FALSE)
      /\ RenderModal(crop, isSaving, scale, imgSize, img, saveCalls)
      /\ promptFrom' = IF res.ok
                       THEN [by |-> "updatePrompt", raced |-> call.raced,
                             superseded |-> call.superseded]
                       ELSE promptFrom

-----------------------------------------------------------------------------
(* App: image generation *)

\* a Generate Image button that is disabled={!productImage}
GenerateDisabledWithoutProduct == productImage = Null
\* disabled={isGeneratingImage || !productImage} of the Generate Image button
GenerateDisabled == isGeneratingImage \/ productImage = Null

\* what handleGenerateImage sets generatedImage to before it calls the service
GeneratedAtStart == Null

\* handleGenerateImage up to its await (or to its early return). Of the
\* arguments of editProductImage the pending call keeps the prompt (the model's
\* responses do not depend on the images sent); shown records the generated
\* image on display when the button was clicked (observation only).
\* a handleGenerateImage that tests the product image only
MissingInputProductOnly == productImage = Null
\* !productImage || !prompt at the start of handleGenerateImage
MissingInput == productImage = Null \/ prompt = EmptyPrompt

HandleGenerateImage ==
  /\ ~GenerateDisabled
  /\ UNCHANGED <<productImage, originalProductImage, isCropModalOpen, styleReferenceImage,
                 aspectRatio, lightingStyle, cameraPerspective, prompt, reads>>
  /\ IF MissingInput
     THEN /\ UNCHANGED <<generatedImage, isGeneratingImage, editCalls>>
          /\ RunPromptEffect(promptCalls, MissingInputMessage, isGeneratingPrompt)
          /\ UNCHANGED promptFrom
     ELSE /\ Len(editCalls) < MaxEditCalls
          /\ isGeneratingImage' = TRUE
          /\ generatedImage' = GeneratedAtStart
          /\ editCalls' = Append(editCalls,
                                 [prompt |-> prompt, shown |-> generatedImage])
          /\ RunPromptEffect(promptCalls, Null, isGeneratingPrompt)
          /\ UNCHANGED promptFrom
  /\ RenderModal(crop, isSaving, scale, imgSize, img, saveCalls)

\* handleGenerateImage after its await, for the pending call i and what the
\* remote request did
\* a handleGenerateImage that clears the flag at the end of its try block
GeneratingAfterInTry(ok) == ~ok
\* finally { setIsGeneratingImage(false) }: the flag after the request
\* resolved (ok) or was rejected
GeneratingAfter(ok) == FALSE

EditSettle(i, outcome) ==
  LET call == editCalls[i]
      res == editProductImage(outcome)
  IN  /\ editCalls' = RemoveAt(editCalls, i)
      /\ generatedImage' = IF res.ok THEN res.value ELSE generatedImage
      /\ isGeneratingImage' = GeneratingAfter(res.ok)
      /\ UNCHANGED <<productImage, originalProductImage, isCropModalOpen, styleReferenceImage,
                     aspectRatio, lightingStyle, cameraPerspective, prompt, reads>>
      /\ RunPromptEffect(promptCalls,
                         IF res.ok THEN error
                         ELSE MessageOr(res.error.message, UnknownImageMessage),
                         isGeneratingPrompt)
      /\ RenderModal(crop, isSaving, scale, imgSize, img, saveCalls)
      /\ UNCHANGED promptFrom

\* handleDownloadImage; its button is rendered while a generated image is shown
HandleDownloadImage ==
  /\ generatedImage # Null /\ ~isGeneratingImage
  /\ UNCHANGED <<productImage, originalProductImage, isCropModalOpen, styleReferenceImage,
                 aspectRatio, lightingStyle, cameraPerspective, prompt, generatedImage,
                 isGeneratingImage, reads, editCalls>>
  /\ RenderSame
  /\ UNCHANGED promptFrom

-----------------------------------------------------------------------------
(* ImageCropModal *)

\* the load event of the <img>: the picture of img.src is decoded, then
\* onImageLoad runs. factor is the layout's scaling of a picture shown for the
\* first time in this dialog.
ImageLoad(factor) ==
  /\ Mounted /\ img.loading
  /\ UNCHANGED <<productImage, originalProductImage, isCropModalOpen, styleReferenceImage,
                 aspectRatio, lightingStyle, cameraPerspective, prompt, generatedImage,
                 isGeneratingImage, reads, editCalls>>
  /\ LET file == img.src
         loaded == [img EXCEPT !.shown = file, !.loading = FALSE,
                               !.naturalWidth = file.naturalWidth,
                               !.naturalHeight = file.naturalHeight,
                               !.layout = <<Round(RMul(R(file.naturalWidth), factor)),
                                            Round(RMul(R(file.naturalHeight), factor))>>]
         size == RenderedSize(loaded, imgSize, scale)
         c == CropOnLoad(crop, aspectRatio, loaded.naturalWidth, loaded.naturalHeight)
     IN  RenderModal(c, isSaving, scale, size, loaded, saveCalls)
  /\ RunPromptEffect(promptCalls, error, isGeneratingPrompt)
  /\ UNCHANGED promptFrom

\* ReactCrop's onChange: setCrop(percentCrop). The pointer needs a picture
\* with an area to act on.
UserDrag(rect) ==
  /\ Mounted /\ rect # crop
  /\ ~img.loading
  /\ RenderedSize(img, imgSize, scale)[1] > 0 /\ RenderedSize(img, imgSize, scale)[2] > 0
  /\ UNCHANGED <<productImage, originalProductImage, isCropModalOpen, styleReferenceImage,
                 aspectRatio, lightingStyle, cameraPerspective, prompt, generatedImage,
                 isGeneratingImage, reads, editCalls>>
  /\ RenderModal(rect, isSaving, scale, imgSize, img, saveCalls)
  /\ RunPromptEffect(promptCalls, error, isGeneratingPrompt)
  /\ UNCHANGED promptFrom

\* the zoom slider: setScale
SetScale(v) ==
  /\ Mounted /\ v # scale
  /\ UNCHANGED <<productImage, originalProductImage, isCropModalOpen, styleReferenceImage,
                 aspectRatio, lightingStyle, cameraPerspective, prompt, generatedImage,
                 isGeneratingImage, reads, editCalls>>
  /\ RenderModal(crop, isSaving, v, imgSize, img, saveCalls)
  /\ RunPromptEffect(promptCalls, error, isGeneratingPrompt)
  /\ UNCHANGED promptFrom

\* disabled={isSaving || !crop?.width || !crop?.height} of the save button
SaveDisabled == isSaving \/ ~CropUsable(crop)

\* handleSaveClick up to its await: getCroppedImg has drawn the canvas and
\* waits for canvas.toBlob. live tells whether the dialog that started the
\* operation is still mounted.
HandleSaveClick ==
  /\ Mounted /\ ~SaveDisabled
  /\ CropUsable(crop)
  /\ Len(saveCalls) < MaxSaveCalls
  /\ UNCHANGED <<productImage, originalProductImage, isCropModalOpen, styleReferenceImage,
                 aspectRatio, lightingStyle, cameraPerspective, prompt, generatedImage,
                 isGeneratingImage, reads, editCalls>>
  /\ RenderModal(crop, TRUE, scale, imgSize, img,
                 Append(saveCalls,
                        [live |-> TRUE, of |-> img.shown, mimeType |-> originalProductImage.mimeType,
                         canvas |-> CroppedCanvas(img, crop, RenderedSize(img, imgSize, scale))]))
  /\ RunPromptEffect(promptCalls, error, isGeneratingPrompt)
  /\ UNCHANGED promptFrom

\* a toBlob that hands over a blob whatever the canvas holds
HasBlobAlways(canvas) == TRUE
\* canvas.toBlob's callback gets a blob: a canvas of zero width or height has
\* no pixels to encode and gives null ('Canvas is empty')
HasBlob(canvas) == canvas.width > 0 /\ canvas.height > 0

\* handleSaveClick after its await, for the pending operation i. encoded tells
\* whether getCroppedImg resolved; a canvas without pixels gives no blob.
\* Resolved: onSave = handleCropSave. Rejected: console.error only.
SaveSettle(i, encoded) ==
  LET call == saveCalls[i]
  IN  /\ encoded => HasBlob(call.canvas)
      /\ productImage' = IF encoded
                         THEN [base64 |-> [of |-> call.of, canvas |-> call.canvas],
                               mimeType |-> call.mimeType]
                         ELSE productImage
      /\ isCropModalOpen' = IF encoded THEN FALSE ELSE isCropModalOpen
      /\ UNCHANGED <<originalProductImage, styleReferenceImage,
                     aspectRatio, lightingStyle, cameraPerspective, prompt, generatedImage,
                     isGeneratingImage, reads, editCalls>>
      /\ RunPromptEffect(promptCalls, error, isGeneratingPrompt)
      /\ RenderModal(crop, IF call.live THEN FALSE ELSE isSaving, scale, imgSize, img,
                     RemoveAt(saveCalls, i))
      /\ UNCHANGED promptFrom

\* an onClose that also discards the cropped product image
CloseModalDiscardingCrop ==
  /\ Mounted
  /\ isCropModalOpen' = FALSE
  /\ productImage' = Null
  /\ UNCHANGED <<originalProductImage, styleReferenceImage,
                 aspectRatio, lightingStyle, cameraPerspective, prompt, generatedImage,
                 isGeneratingImage, reads, editCalls>>
  /\ RenderSame
  /\ UNCHANGED promptFrom
\* onClose: the Cancel button and the close button of the dialog
CloseModal ==
  /\ Mounted
  /\ isCropModalOpen' = FALSE
  /\ UNCHANGED <<productImage, originalProductImage, styleReferenceImage,
                 aspectRatio, lightingStyle, cameraPerspective, prompt, generatedImage,
                 isGeneratingImage, reads, editCalls>>
  /\ RenderSame
  /\ UNCHANGED promptFrom

-----------------------------------------------------------------------------
(* The product image from upload to generated picture: the crop dialog, the  *)
(* prompt box and the image request, with the settings left as they start.   *)

Next ==
  \/ \E file \in AppFiles, type \in {"product"} : HandleFileUpload(file, type)
  \/ \E i \in DOMAIN reads : ReadResolve(i)
  \/ \E i \in DOMAIN reads : ReadReject(i)
  \/ ChangeCrop
  \/ DismissError
  \/ \E text \in TypedPrompts : EditPrompt(text)
  \/ \E i \in DOMAIN promptCalls, outcome \in PromptOutcomes({SomePrompt}) :
       PromptSettle(i, outcome)
  \/ HandleGenerateImage
  \/ \E i \in DOMAIN editCalls, outcome \in EditOutcomes : EditSettle(i, outcome)
  \/ HandleDownloadImage
  \/ \E factor \in LayoutFactors : ImageLoad(factor)
  \/ \E rect \in DragCrops : UserDrag(rect)
  \/ \E v \in ZoomValues : SetScale(v)
  \/ HandleSaveClick
  \/ \E i \in DOMAIN saveCalls, encoded \in BOOLEAN : SaveSettle(i, encoded)
  \/ CloseModal

Spec == Init /\ [][Next]_vars

-----------------------------------------------------------------------------
(* Every control of the page, with each request answered successfully and at *)
(* most one prompt request pending: a setting or the style image changes     *)
(* only while no prompt request is pending.                                  *)

Calm == promptCalls = <<>>
GoodImage == [candidates |-> <<Candidate(<<ImagePart("image/png", "A")>>)>>]

NextTriggers ==
  \/ \E file \in {JpegFile}, type \in UploadTypes : HandleFileUpload(file, type)
  \/ \E i \in DOMAIN reads : (reads[i].type = "style" => Calm) /\ ReadResolve(i)
  \/ Calm /\ HandleClearStyleImage
  \/ ChangeCrop
  \/ DismissError
  \/ \E v \in {"1:1", "16:9"} : Calm /\ SetAspectRatio(v)
  \/ \E v \in LightingStyles : Calm /\ SetLightingStyle(v)
  \/ \E v \in CameraPerspectives : Calm /\ SetCameraPerspective(v)
  \/ \E text \in {ManualPrompt} : EditPrompt(text)
  \/ \E i \in DOMAIN promptCalls : PromptSettle(i, [text |-> SomePrompt])
  \/ HandleGenerateImage
  \/ \E i \in DOMAIN editCalls : EditSettle(i, GoodImage)
  \/ HandleDownloadImage
  \/ \E factor \in LayoutFactors : ImageLoad(factor)
  \/ HandleSaveClick
  \/ \E i \in DOMAIN saveCalls : SaveSettle(i, TRUE)
  \/ CloseModal

SpecTriggers == Init /\ [][NextTriggers]_vars

-----------------------------------------------------------------------------
(* Prompt synthesis with overlapping requests: the user changes the lighting *)
(* style at any time, adds a style image when there is none and clears it    *)
(* when there is one, and the response to a request names it.                *)

\* what the remote request of a pending call may do
PromptResponses(call) ==
  {[text |-> PromptText(call)], [text |-> BlankText], [text |-> EmptyPrompt],
   [candidates |-> <<>>], [threw |-> NetworkFailure]}

NextPrompt ==
  \/ reads = <<>> /\ styleReferenceImage = Null /\ HandleFileUpload(JpegFile, "style")
  \/ \E i \in DOMAIN reads : ReadResolve(i)
  \/ HandleClearStyleImage
  \/ DismissError
  \/ \E v \in LightingStyles : SetLightingStyle(v)
  \/ \E text \in {ManualPrompt} : EditPrompt(text)
  \/ \E i \in DOMAIN promptCalls :
       \E outcome \in PromptResponses(promptCalls[i]) : PromptSettle(i, outcome)

SpecPrompt == Init /\ [][NextPrompt]_vars

-----------------------------------------------------------------------------
(* Uploads: files of every declared type and size                            *)

FileTypes == {"image/jpeg", "image/png", "image/webp", "image/gif"}
FileSizes == {5 * MiB, MAX_FILE_SIZE_BYTES, MAX_FILE_SIZE_BYTES + 1, 15 * MiB}
\* JPEG files of every size, files of the other types below and above the limit
UploadFiles ==
  {[type |-> t, size |-> z, naturalWidth |-> 4, naturalHeight |-> 3] :
     <<t, z>> \in ({"image/jpeg"} \X FileSizes) \cup (FileTypes \X {5 * MiB, 15 * MiB})}

NextUpload ==
  \/ \E file \in UploadFiles, type \in UploadTypes : HandleFileUpload(file, type)
  \/ \E i \in DOMAIN reads : ReadResolve(i)
  \/ \E i \in DOMAIN reads : ReadReject(i)
  \/ DismissError

SpecUpload == Init /\ [][NextUpload]_vars

-----------------------------------------------------------------------------
(* One session of the crop dialog: a product picture of any shape is        *)
(* uploaded, the dialog opens on it, the user changes the aspect ratio,     *)
(* drags, zooms, saves or cancels.                                          *)

NextCrop ==
  \/ \E file \in CropFiles :
       /\ originalProductImage = Null /\ reads = <<>>
       /\ HandleFileUpload(file, "product")
  \/ \E i \in DOMAIN reads : ReadResolve(i)
  \/ \E v \in AspectRatios : Calm /\ SetAspectRatio(v)
  \/ \E i \in DOMAIN promptCalls : PromptSettle(i, [text |-> SomePrompt])
  \/ \E factor \in LayoutFactors : ImageLoad(factor)
  \/ /\ Mounted
     /\ \E rect \in CropDrags(aspectRatio, img.naturalWidth, img.naturalHeight) : UserDrag(rect)
  \/ \E v \in CropZooms : SetScale(v)
  \/ HandleSaveClick
  \/ \E i \in DOMAIN saveCalls, encoded \in BOOLEAN : SaveSettle(i, encoded)
  \/ CloseModal

SpecCrop == Init /\ [][NextCrop]_vars

-----------------------------------------------------------------------------
(* Everything that happens around the stored product image: uploads of both *)
(* kinds, the settings, the style image, prompt synthesis, image generation *)
(* and the crop dialog with drag, zoom, save and cancel. Requests succeed,   *)
(* file reads and crop-saves may fail.                                       *)

\* every setting but the named one has the value the page starts with
DefaultsBut(setting) ==
  /\ setting # "aspectRatio" => aspectRatio = "1:1"
  /\ setting # "lightingStyle" => lightingStyle = "Studio Lighting"
  /\ setting # "cameraPerspective" => cameraPerspective = "Eye-level"

NextFrame ==
  \/ reads = <<>> /\ HandleFileUpload(JpegFile, "product")
  \/ reads = <<>> /\ styleReferenceImage = Null /\ HandleFileUpload(JpegFile, "style")
  \/ \E i \in DOMAIN reads : (reads[i].type = "style" => Calm) /\ ReadResolve(i)
  \/ Calm /\ HandleClearStyleImage
  \/ ChangeCrop
  \/ \E v \in {"1:1", "16:9"} : Calm /\ DefaultsBut("aspectRatio") /\ SetAspectRatio(v)
  \/ \E v \in LightingStyles : Calm /\ DefaultsBut("lightingStyle") /\ SetLightingStyle(v)
  \/ \E v \in CameraPerspectives : Calm /\ DefaultsBut("cameraPerspective") /\ SetCameraPerspective(v)
  \/ \E i \in DOMAIN promptCalls : PromptSettle(i, [text |-> SomePrompt])
  \/ HandleGenerateImage
  \/ \E i \in DOMAIN editCalls : EditSettle(i, GoodImage)
  \/ \E factor \in LayoutFactors : ImageLoad(factor)
  \/ \E rect \in DragCrops : UserDrag(rect)
  \/ \E v \in ZoomValues : SetScale(v)
  \/ HandleSaveClick
  \/ \E i \in DOMAIN saveCalls, encoded \in BOOLEAN : SaveSettle(i, encoded)
  \/ CloseModal

SpecFrame == Init /\ [][NextFrame]_vars

-----------------------------------------------------------------------------
(* Remote calls and their failures: one cropped product image, the lighting *)
(* style changed at any time, prompt and image requests answered with every *)
(* kind of response and failure.                                            *)

NextRetry ==
  \/ /\ originalProductImage = Null /\ reads = <<>>
     /\ HandleFileUpload(JpegFile, "product")
  \/ \E i \in DOMAIN reads : ReadResolve(i)
  \/ \E factor \in LayoutFactors : ImageLoad(factor)
  \/ HandleSaveClick
  \/ \E i \in DOMAIN saveCalls : SaveSettle(i, TRUE)
  \/ \E v \in LightingStyles : SetLightingStyle(v)
  \/ \E i \in DOMAIN promptCalls :
       \E outcome \in PromptOutcomes({SomePrompt}) : PromptSettle(i, outcome)
  \/ HandleGenerateImage
  \/ \E i \in DOMAIN editCalls : \E outcome \in EditOutcomes : EditSettle(i, outcome)
  \/ DismissError

SpecRetry == Init /\ [][NextRetry]_vars

-----------------------------------------------------------------------------
(* Error translation: one cropped product image, prompt and image requests  *)
(* that fail with every thrown value, and prompt responses without text.    *)

NextErrors ==
  \/ /\ originalProductImage = Null /\ reads = <<>>
     /\ HandleFileUpload(JpegFile, "product")
  \/ \E i \in DOMAIN reads : ReadResolve(i)
  \/ \E factor \in LayoutFactors : ImageLoad(factor)
  \/ HandleSaveClick
  \/ \E i \in DOMAIN saveCalls : SaveSettle(i, TRUE)
  \/ \E v \in LightingStyles : Calm /\ SetLightingStyle(v)
  \/ \E i \in DOMAIN promptCalls :
       \E outcome \in {[text |-> SomePrompt], [text |-> EmptyPrompt], [candidates |-> <<>>]}
                         \cup {[threw |-> t] : t \in ThrownValues} :
         PromptSettle(i, outcome)
  \/ HandleGenerateImage
  \/ \E i \in DOMAIN editCalls :
       \E outcome \in {GoodImage} \cup {[threw |-> t] : t \in ThrownValues} :
         EditSettle(i, outcome)

SpecErrors == Init /\ [][NextErrors]_vars

-----------------------------------------------------------------------------
(* Generating while the prompt is being synthesized: one cropped product    *)
(* image, the lighting style changed at any time, each prompt request       *)
(* answered with the prompt for its own settings or with a failure, the     *)
(* prompt box edited by hand, Generate Image clicked whenever it is enabled. *)

NextGenerate ==
  \/ /\ originalProductImage = Null /\ reads = <<>>
     /\ HandleFileUpload(JpegFile, "product")
  \/ \E i \in DOMAIN reads : ReadResolve(i)
  \/ \E factor \in LayoutFactors : ImageLoad(factor)
  \/ HandleSaveClick
  \/ \E i \in DOMAIN saveCalls : SaveSettle(i, TRUE)
  \/ \E v \in LightingStyles : SetLightingStyle(v)
  \/ \E i \in DOMAIN promptCalls :
       \E outcome \in {[text |-> PromptText(promptCalls[i])], [threw |-> RateLimitError]} :
         PromptSettle(i, outcome)
  \/ EditPrompt(ManualPrompt)
  \/ HandleGenerateImage
  \/ \E i \in DOMAIN editCalls : EditSettle(i, GoodImage)

SpecGenerate == Init /\ [][NextGenerate]_vars

-----------------------------------------------------------------------------
(* Busy flags: the product image is cropped, re-cropped or the dialog       *)
(* cancelled, the lighting style changes, images are generated; every       *)
(* request and every encode succeeds or fails, and none stays pending for   *)
(* ever.                                                                    *)

PromptSettles ==
  \E i \in DOMAIN promptCalls :
    \E outcome \in {[text |-> SomePrompt], [threw |-> RateLimitError]} : PromptSettle(i, outcome)
EditSettles ==
  \E i \in DOMAIN editCalls :
    \E outcome \in {GoodImage, [threw |-> RateLimitError]} : EditSettle(i, outcome)
SaveSettles ==
  \E i \in DOMAIN saveCalls, encoded \in BOOLEAN : SaveSettle(i, encoded)

NextBusy ==
  \/ /\ originalProductImage = Null /\ reads = <<>>
     /\ HandleFileUpload(JpegFile, "product")
  \/ \E i \in DOMAIN reads : ReadResolve(i)
  \/ \E factor \in LayoutFactors : ImageLoad(factor)
  \/ HandleSaveClick
  \/ SaveSettles
  \/ CloseModal
  \/ ChangeCrop
  \/ \E v \in LightingStyles : SetLightingStyle(v)
  \/ PromptSettles
  \/ HandleGenerateImage
  \/ EditSettles

SpecBusy ==
  /\ Init /\ [][NextBusy]_vars
  /\ WF_vars(PromptSettles) /\ WF_vars(EditSettles) /\ WF_vars(SaveSettles)

-----------------------------------------------------------------------------
(* Properties *)

\* C1: when an image-edit request fails (the remote call throws, or its
\* response has no image part), the generated image that was stored and on
\* display when the request was started is the stored generated image after
\* the failure.
C1_FailedEditKeepsPreviousImage ==
  [][\A i \in DOMAIN editCalls : \A outcome \in EditOutcomes :
       (~editProductImage(outcome).ok /\ EditSettle(i, outcome))
         => generatedImage' = editCalls[i].shown]_vars

\* C2: when a prompt synthesis fails (the remote call throws, or its response
\* has no text), the stored prompt after the failure is the stored prompt
\* before it; the failure sets the error message and clears isGeneratingPrompt
\* and changes nothing else of the App's state.
C2_FailedSynthesisKeepsPrompt ==
  [][\A i \in DOMAIN promptCalls :
       \A outcome \in PromptResponses(promptCalls[i]) :
         (/\ "threw" \in DOMAIN outcome \/ "text" \notin DOMAIN outcome
                \/ outcome.text = EmptyPrompt
          /\ PromptSettle(i, outcome))
           => /\ prompt' = prompt
              /\ error' # Null
              /\ ~isGeneratingPrompt'
              /\ UNCHANGED <<productImage, originalProductImage, isCropModalOpen,
                             styleReferenceImage, aspectRatio, lightingStyle,
                             cameraPerspective, generatedImage, isGeneratingImage>>]_vars

\* a synthesis has failed and no other is pending: the prompt of an earlier
\* synthesis is in the box, next to the failure's message
C2_Witness ==
  /\ promptCalls = <<>> /\ ~isGeneratingPrompt
  /\ error = UnexpectedMessage("prompt generation")
  /\ prompt # EmptyPrompt /\ prompt.kind = "synth"

\* C3: handleFileUpload accepts a file (starts to read it) if and only if its
\* type is image/jpeg, image/png or image/webp and its size is at most
\* 10 * 1024 * 1024 bytes; a file of another type is refused with the message
\* on the format, a file of a supported type that is larger with the message
\* on the size.
C3_UploadAcceptsExactlyValidFiles ==
  [][\A file \in UploadFiles, type \in UploadTypes :
       HandleFileUpload(file, type) =>
         /\ (/\ file.type \in {"image/jpeg", "image/png", "image/webp"}
             /\ file.size <= 10 * 1024 * 1024)
              <=> reads' = Append(reads, [type |-> type, file |-> file])
         /\ file.type \notin {"image/jpeg", "image/png", "image/webp"}
              => error' = UnsupportedTypeMessage
         /\ (/\ file.type \in {"image/jpeg", "image/png", "image/webp"}
             /\ file.size > 10 * 1024 * 1024)
              => error' = FileTooLargeMessage
         /\ (/\ file.type \in {"image/jpeg", "image/png", "image/webp"}
             /\ file.size <= 10 * 1024 * 1024)
              => error' = Null]_vars

\* a file of exactly 10 MiB is being read, and a later file was refused as
\* too large
C3_Witness ==
  /\ error = FileTooLargeMessage
  /\ \E i \in DOMAIN reads : reads[i].file.size = 10 * 1024 * 1024

\* C4: an upload refused for its type or its size starts no read of the file
\* and leaves the original product image, the cropped product image, the
\* style reference image and the crop dialog's open flag as they were.
C4_RejectedUploadStartsNoRead ==
  [][\A file \in UploadFiles, type \in UploadTypes :
       (/\ file.type \notin {"image/jpeg", "image/png", "image/webp"}
             \/ file.size > 10 * 1024 * 1024
        /\ HandleFileUpload(file, type))
         => /\ reads' = reads
            /\ UNCHANGED <<originalProductImage, productImage, styleReferenceImage,
                           isCropModalOpen>>]_vars

\* a file has just been refused for its type while an original product
\* image, a style image and an open dialog were there to be kept
C4_Witness ==
  /\ error = UnsupportedTypeMessage
  /\ originalProductImage # Null /\ isCropModalOpen /\ styleReferenceImage # Null

\* C5: at most one editProductImage request is in flight, and while one is in
\* flight isGeneratingImage is true (the Generate control is disabled).
C5_OneImageRequestInFlight ==
  /\ Len(editCalls) <= 1
  /\ editCalls # <<>> => isGeneratingImage

\* a request is in flight while the inputs for another one are there
C5_Witness ==
  /\ Len(editCalls) = 1
  /\ productImage # Null /\ prompt # EmptyPrompt

\* C6: at most one getCroppedImg operation is in flight: no crop-save is
\* started before the one started earlier has resolved or rejected.
C6_OneCropSaveInFlight == Len(saveCalls) <= 1

\* the four fields of a pending call that generateDescriptivePrompt receives
Request(call) ==
  <<call.aspectRatio, call.lightingStyle, call.cameraPerspective, call.styleImage>>
Requests(calls) == [j \in DOMAIN calls |-> Request(calls[j])]

\* C7: a synthesis triggered while earlier ones are pending cancels none of
\* them (it joins them), a call that completes leaves the others pending, and
\* a call that succeeds stores its own result whatever was stored before: of
\* two overlapping calls that succeed, the one that completes later decides
\* the prompt.
C7_LaterCompletionWins ==
  [][/\ <<aspectRatio, lightingStyle, cameraPerspective, styleReferenceImage>>'
          # <<aspectRatio, lightingStyle, cameraPerspective, styleReferenceImage>>
        => Requests(promptCalls')
             = Append(Requests(promptCalls),
                      <<aspectRatio, lightingStyle, cameraPerspective, styleReferenceImage>>')
     /\ \A i \in DOMAIN promptCalls :
          \A outcome \in PromptResponses(promptCalls[i]) :
            PromptSettle(i, outcome)
              => /\ Requests(promptCalls') = RemoveAt(Requests(promptCalls), i)
                 /\ outcome = [text |-> PromptText(promptCalls[i])]
                      => prompt' = PromptText(promptCalls[i])]_vars

\* both of two overlapping calls have completed, and the prompt in the box
\* is the result of the one that completed later
C7_Witness ==
  /\ promptCalls = <<>>
  /\ promptFrom.by = "updatePrompt" /\ promptFrom.raced
  /\ prompt.kind = "synth"

\* C8: a call that completes after a call started later has already stored
\* its prompt overwrites that prompt with its own result, the text for the
\* settings and style image it was started with.
C8_EarlierCallOverwritesLater ==
  [][\A i \in DOMAIN promptCalls :
       (/\ promptCalls[i].superseded
        /\ PromptSettle(i, [text |-> PromptText(promptCalls[i])]))
         => prompt' = PromptText(promptCalls[i])]_vars

\* no synthesis is pending, and the prompt in the box is the one an earlier
\* call wrote over a later call's: it was synthesized for settings or a style
\* image other than the selected ones
C8_Witness ==
  /\ promptCalls = <<>>
  /\ promptFrom.by = "updatePrompt" /\ promptFrom.superseded
  /\ prompt.kind = "synth"
  /\ <<prompt.aspectRatio, prompt.lightingStyle, prompt.cameraPerspective, prompt.styleImage>>
       # <<aspectRatio, lightingStyle, cameraPerspective, styleReferenceImage>>

\* C9: one synthesis is pending when the application has started, and a step
\* starts a synthesis, for the new values, exactly when it changes
\* aspectRatio, lightingStyle, cameraPerspective or styleReferenceImage; every
\* other step starts none.
C9_SynthesisStartsExactlyOnChange ==
  /\ Requests(promptCalls)
       = << <<aspectRatio, lightingStyle, cameraPerspective, styleReferenceImage>> >>
  /\ [][IF <<aspectRatio, lightingStyle, cameraPerspective, styleReferenceImage>>'
             # <<aspectRatio, lightingStyle, cameraPerspective, styleReferenceImage>>
        THEN Requests(promptCalls')
               = Append(Requests(promptCalls),
                        <<aspectRatio, lightingStyle, cameraPerspective, styleReferenceImage>>')
        ELSE \/ Requests(promptCalls') = Requests(promptCalls)
             \/ \E i \in DOMAIN promptCalls :
                  Requests(promptCalls') = RemoveAt(Requests(promptCalls), i)]_vars

\* every one of the four values has been changed, the last change has its
\* synthesis pending, and an image has been generated meanwhile
C9_Witness ==
  /\ Len(promptCalls) = 1
  /\ Request(promptCalls[1]) = <<"16:9", "Natural Light", "High-angle", styleReferenceImage>>
  /\ styleReferenceImage # Null
  /\ generatedImage # Null /\ prompt = ManualPrompt

\* C10: every failure of an upload read, a crop-save, a prompt synthesis or
\* an image edit sets the error banner to a message.
C10_EveryFailureSetsTheBanner ==
  [][/\ \A i \in DOMAIN reads : ReadReject(i) => error' # Null
     /\ \A i \in DOMAIN saveCalls : SaveSettle(i, FALSE) => error' # Null
     /\ \A i \in DOMAIN promptCalls : \A outcome \in PromptOutcomes({SomePrompt}) :
          (~generateDescriptivePrompt(outcome).ok /\ PromptSettle(i, outcome))
            => error' # Null
     /\ \A i \in DOMAIN editCalls : \A outcome \in EditOutcomes :
          (~editProductImage(outcome).ok /\ EditSettle(i, outcome))
            => error' # Null]_vars

\* C11: zoom is a view-only control: for a given image and crop region the
\* rectangle that crop-and-save cuts out (canvas size and source rectangle in
\* natural pixels) is the one it cuts out at zoom 1, whatever the zoom is.
C11_ZoomDoesNotChangeTheSavedRectangle ==
  [][HandleSaveClick
       => saveCalls'[Len(saveCalls')].canvas
            = CroppedCanvas(img, crop, RenderedSize(img, imgSize, R(1)))]_vars

\* the rectangle p (in displayed pixels) on an image displayed at w x h
RLeq(a, b) == ~RLess(b, a)
IsCentered(p, w, h) ==
  /\ p.x = RDiv(RSub(R(w), p.width), R(2))
  /\ p.y = RDiv(RSub(R(h), p.height), R(2))
HasAspect(p, aspect) == p.width = RMul(p.height, aspect)
IsWithin(p, w, h) ==
  /\ RLeq(R(0), p.x) /\ RLeq(RAdd(p.x, p.width), R(w))
  /\ RLeq(R(0), p.y) /\ RLeq(RAdd(p.y, p.height), R(h))
\* p fits the box of 90% of the width by 90% of the height and touches it
IsLargestWithin90(p, w, h) ==
  /\ RLeq(p.width, RDiv(R(9 * w), R(10)))
  /\ RLeq(p.height, RDiv(R(9 * h), R(10)))
  /\ p.width = RDiv(R(9 * w), R(10)) \/ p.height = RDiv(R(9 * h), R(10))

\* C12: for a picture with naturalWidth > 0 and naturalHeight > 0 and each of
\* the three aspect ratios, the crop region set by the image load is centered,
\* has the target aspect ratio, lies within the displayed image and is the
\* largest such rectangle within 90% of the image's extent.
C12_InitialCropIsLargestCenteredWithin90 ==
  [][((\E factor \in LayoutFactors : ImageLoad(factor))
        /\ img'.naturalWidth > 0 /\ img'.naturalHeight > 0)
       => /\ IsCentered(convertToPixelCrop(crop', imgSize'[1], imgSize'[2]),
                        imgSize'[1], imgSize'[2])
          /\ HasAspect(convertToPixelCrop(crop', imgSize'[1], imgSize'[2]),
                       getAspectRatioValue(aspectRatio))
          /\ IsWithin(convertToPixelCrop(crop', imgSize'[1], imgSize'[2]),
                      imgSize'[1], imgSize'[2])
          /\ IsLargestWithin90(convertToPixelCrop(crop', imgSize'[1], imgSize'[2]),
                               imgSize'[1], imgSize'[2])]_vars

\* C13: once the dialog has loaded its image, every change of the aspect
\* ratio replaces the crop region by the centered rectangle that the image
\* load computes for the new ratio, whatever the crop region was before (a
\* dragged one included): the result depends on the new ratio and the image
\* only, so making the same change again gives the same crop region.
C13_AspectChangeResetsTheCrop ==
  [][(/\ aspectRatio' # aspectRatio
      /\ Mounted /\ Mounted'
      /\ ~img.loading /\ img.naturalWidth > 0 /\ img.naturalHeight > 0)
       => crop' = CropOnLoad(Null, aspectRatio', img.naturalWidth, img.naturalHeight)]_vars

\* the user dragged the largest 1:1 rectangle on the square picture and
\* pressed save; the aspect ratio then changed to 16:9 and the crop region is
\* the one the load computes for 16:9
C13_Witness ==
  /\ Mounted /\ ~img.loading /\ img.shown = JpegFile
  /\ Len(saveCalls) = 1
  /\ saveCalls[1].canvas
       = CroppedCanvas(img, LargestCrop("1:1", 1000, 1000), RenderedSize(img, imgSize, scale))
  /\ aspectRatio = "16:9"
  /\ crop = InitialCrop("16:9", 1000, 1000)

\* C14: crop-and-save with a crop region that covers the whole displayed
\* image gives a picture of the natural width and the natural height of the
\* source, at any display size.
C14_FullCropKeepsTheNaturalSize ==
  [][(HandleSaveClick /\ crop = PercentCrop(0, 0, 100, 100))
       => /\ saveCalls'[Len(saveCalls')].canvas.width = img.naturalWidth
          /\ saveCalls'[Len(saveCalls')].canvas.height = img.naturalHeight]_vars

\* C15: a crop-and-save whose canvas width or height is floored to zero
\* fails: it does not resolve, onSave gets no image, and the product image
\* and the open dialog stay as they are.
C15_EmptyCropIsNeverSaved ==
  [][\A i \in DOMAIN saveCalls :
       (/\ saveCalls[i].canvas.width = 0 \/ saveCalls[i].canvas.height = 0
        /\ \E encoded \in BOOLEAN : SaveSettle(i, encoded))
         => /\ ~SaveSettle(i, TRUE)
            /\ productImage' = productImage
            /\ isCropModalOpen' = isCropModalOpen]_vars

\* a crop-and-save of a small rectangle with a positive size on the square
\* picture is waiting for its blob, its canvas floored to zero pixels
C15_Witness ==
  /\ Mounted /\ isSaving /\ CropUsable(crop)
  /\ Len(saveCalls) = 1
  /\ saveCalls[1].canvas.width = 0 /\ ~RZero(saveCalls[1].canvas.sw)

\* the parts of the first candidate of a response, none when the response has
\* no candidate or the candidate has no content
FirstCandidateParts(response) ==
  IF "candidates" \in DOMAIN response /\ response.candidates # <<>>
       /\ "content" \in DOMAIN response.candidates[1]
  THEN response.candidates[1].content.parts
  ELSE <<>>

\* C16: an image edit that got a response returns exactly the first image
\* part of the first candidate; when the response has no candidate or no
\* image part it fails with the error that says the model returned no image,
\* and the caller is shown that message, not a generic one.
C16_FirstImageOrNoImageError ==
  [][\A i \in DOMAIN editCalls : \A outcome \in EditOutcomes :
       ("threw" \notin DOMAIN outcome /\ EditSettle(i, outcome))
         => IF \E k \in DOMAIN FirstCandidateParts(outcome) :
                 IsImagePart(FirstCandidateParts(outcome)[k])
            THEN \E k \in DOMAIN FirstCandidateParts(outcome) :
                   /\ IsImagePart(FirstCandidateParts(outcome)[k])
                   /\ \A j \in 1..(k - 1) : ~IsImagePart(FirstCandidateParts(outcome)[j])
                   /\ generatedImage'
                        = DataUrl(FirstCandidateParts(outcome)[k].inlineData.mimeType,
                                  FirstCandidateParts(outcome)[k].inlineData.data)
            ELSE error' = NoImageError.message]_vars

\* C17: the stored cropped product image changes only when a crop-save
\* completes (it becomes the saved crop) or when the file of a new product
\* upload has been read (it is cleared and the crop dialog opens). Settings,
\* the style image, prompt synthesis, image generation, zoom, drag and cancel
\* leave it as it is.
C17_ProductImageChangesOnlyBySaveOrUpload ==
  [][productImage' # productImage
       => \/ \E i \in DOMAIN saveCalls :
               /\ SaveSettle(i, TRUE)
               /\ productImage' = [base64 |-> [of |-> saveCalls[i].of,
                                               canvas |-> saveCalls[i].canvas],
                                   mimeType |-> saveCalls[i].mimeType]
          \/ \E i \in DOMAIN reads :
               /\ reads[i].type = "product" /\ ReadResolve(i)
               /\ productImage' = Null /\ isCropModalOpen']_vars

\* a crop was saved; since then a setting was changed, a style image added,
\* an image generated, and in the reopened dialog the user has zoomed and
\* clicked on the picture
C17_Witness ==
  /\ productImage # Null
  /\ lightingStyle = "Natural Light" /\ styleReferenceImage # Null
  /\ generatedImage # Null
  /\ Mounted /\ scale = R(3) /\ crop = PercentCrop(10, 10, 0, 0)

\* C18: no remote call is retried automatically. A step starts at most one
\* prompt request and at most one image request; a prompt request starts only
\* when one of the four prompt inputs changes and an image request only by
\* Generate Image; a request that fails is gone and starts no other request.
C18_NoAutomaticRetry ==
  [][/\ Len(promptCalls') <= Len(promptCalls) + 1
     /\ Len(editCalls') <= Len(editCalls) + 1
     /\ Len(promptCalls') > Len(promptCalls) => PromptDeps' # PromptDeps
     /\ Len(editCalls') > Len(editCalls) => HandleGenerateImage
     /\ \A i \in DOMAIN promptCalls : \A outcome \in PromptOutcomes({SomePrompt}) :
          (~generateDescriptivePrompt(outcome).ok /\ PromptSettle(i, outcome))
            => /\ Len(promptCalls') = Len(promptCalls) - 1
               /\ editCalls' = editCalls
     /\ \A i \in DOMAIN editCalls : \A outcome \in EditOutcomes :
          (~editProductImage(outcome).ok /\ EditSettle(i, outcome))
            => /\ Len(editCalls') = Len(editCalls) - 1
               /\ promptCalls' = promptCalls]_vars

\* the lighting style was changed, its prompt arrived, and the image request
\* for it failed for want of an image: nothing is pending
C18_Witness ==
  /\ lightingStyle = "Natural Light" /\ prompt = SomePrompt
  /\ productImage # Null
  /\ error = NoImageError.message
  /\ promptCalls = <<>> /\ editCalls = <<>>
  /\ ~isGeneratingPrompt /\ ~isGeneratingImage

\* C19: whenever the dialog has a crop region, its width and its height are
\* positive: a drag that reports a rectangle without positive width or height
\* is rejected and the crop region stays as it was.
C19_CropRegionHasPositiveSize ==
  (Mounted /\ crop # Null) => (RLess(R(0), crop.width) /\ RLess(R(0), crop.height))

\* C20: an image load that reports naturalWidth <= 0 or naturalHeight <= 0
\* sets no crop region (the dialog stays uninitialized), and while the dialog
\* has no crop region no crop-save starts.
C20_NoCropWithoutImageSize ==
  [][/\ ((\E factor \in LayoutFactors : ImageLoad(factor))
           /\ (img'.naturalWidth <= 0 \/ img'.naturalHeight <= 0))
          => crop' = Null
     /\ (Mounted /\ crop = Null) => (~HandleSaveClick /\ Len(saveCalls') <= Len(saveCalls))]_vars

\* the dialog has loaded the picture without intrinsic size and has no crop
\* region
C20_Witness ==
  /\ Mounted /\ ~img.loading /\ img.shown = EmptyFile
  /\ img.naturalWidth = 0
  /\ crop = Null /\ ~isSaving /\ saveCalls = <<>>

\* the crop region c (percent of the displayed image) in displayed pixels,
\* for an image rendered at <<w, h>>
DisplayedCrop(c, rendered) == convertToPixelCrop(c, rendered[1], rendered[2])

\* C21: for a crop region inside the displayed image, crop-and-save makes a
\* canvas of floor(cropWidth * scaleX) by floor(cropHeight * scaleY) pixels,
\* scaleX = naturalWidth / displayedWidth, scaleY = naturalHeight /
\* displayedHeight, the source rectangle it copies stays within the natural
\* size of the picture, and the untouched 16:9 crop of a 1000x1000 picture is
\* saved as 1000x562.
C21_CanvasIsTheFlooredNaturalCrop ==
  [][HandleSaveClick
       => /\ saveCalls'[Len(saveCalls')].canvas.width
               = Floor(RMul(DisplayedCrop(crop, RenderedSize(img, imgSize, scale)).width,
                            Norm(img.naturalWidth, RenderedSize(img, imgSize, scale)[1])))
          /\ saveCalls'[Len(saveCalls')].canvas.height
               = Floor(RMul(DisplayedCrop(crop, RenderedSize(img, imgSize, scale)).height,
                            Norm(img.naturalHeight, RenderedSize(img, imgSize, scale)[2])))
          /\ RLeq(RAdd(saveCalls'[Len(saveCalls')].canvas.sx, saveCalls'[Len(saveCalls')].canvas.sw),
                  R(img.naturalWidth))
          /\ RLeq(RAdd(saveCalls'[Len(saveCalls')].canvas.sy, saveCalls'[Len(saveCalls')].canvas.sh),
                  R(img.naturalHeight))
          /\ (img.shown = JpegFile /\ crop = InitialCrop("16:9", 1000, 1000))
               => /\ saveCalls'[Len(saveCalls')].canvas.width = 1000
                  /\ saveCalls'[Len(saveCalls')].canvas.height = 562]_vars

\* the message of thrown value t holds phrase p, however it is written
Mentions(t, p) == \E o \in t.message.has : o.phrase = p
\* the message the caller gets for thrown value t, by the four kinds
TranslatedMessage(t, context) ==
  IF ~t.isError THEN UnexpectedMessage(context)
  ELSE IF Mentions(t, "api key not valid") THEN InvalidKeyMessage
  ELSE IF Mentions(t, "rate limit") THEN RateLimitMessage
  ELSE IF Mentions(t, "did not return an image") THEN t.message
  ELSE UnexpectedMessage(context)

\* C22: an error of a prompt or image request is translated to one of four
\* kinds by a case-insensitive search of its message: 'api key not valid'
\* gives the invalid-key error, else 'rate limit' the rate-limit error, else
\* 'did not return an image' keeps the error, else the unexpected error; a
\* thrown value that is no Error and a response with an empty prompt give the
\* unexpected error.
C22_ErrorsAreTranslatedByPriority ==
  [][/\ \A i \in DOMAIN promptCalls : \A t \in ThrownValues :
          PromptSettle(i, [threw |-> t])
            => error' = TranslatedMessage(t, "prompt generation")
     /\ \A i \in DOMAIN promptCalls :
          (PromptSettle(i, [text |-> EmptyPrompt]) \/ PromptSettle(i, [candidates |-> <<>>]))
            => error' = UnexpectedMessage("prompt generation")
     /\ \A i \in DOMAIN editCalls : \A t \in ThrownValues :
          EditSettle(i, [threw |-> t])
            => error' = TranslatedMessage(t, "image generation")]_vars

\* the image request failed with an Error whose message says 'Did Not Return
\* An Image' with capitals and holds neither of the other phrases: the banner
\* shows that message
C22_Witness ==
  /\ error = ErrorWith([p \in Phrases |->
                          IF p = "did not return an image" THEN "caps" ELSE "absent"]).message
  /\ productImage # Null /\ prompt = SomePrompt
  /\ editCalls = <<>> /\ ~isGeneratingImage

\* C23: a click on Generate Image while there is no cropped product image or
\* the prompt is empty starts no image request, sets the error message, and
\* leaves the generated image and isGeneratingImage as they are.
C23_GenerateWithoutInputOnlySetsError ==
  [][(HandleGenerateImage /\ (productImage = Null \/ prompt = EmptyPrompt))
       => /\ editCalls' = editCalls
          /\ error' = MissingInputMessage
          /\ generatedImage' = generatedImage
          /\ isGeneratingImage' = isGeneratingImage]_vars

\* an image was generated, the user emptied the prompt box and clicked
\* Generate Image: the message is shown and the image is still there
C23_Witness ==
  /\ productImage # Null /\ prompt = EmptyPrompt
  /\ error = MissingInputMessage
  /\ generatedImage # Null /\ ~isGeneratingImage /\ editCalls = <<>>

\* C24: isGeneratingPrompt is true exactly while at least one prompt request
\* is pending, also when several requests overlap and complete at different
\* times.
C24_PromptBusyFlagMatchesPendingRequests ==
  isGeneratingPrompt <=> (promptCalls # <<>>)

\* C25: once the dialog has been closed by Cancel or the close button, its
\* crop session does not change the stored product image any more, even if a
\* crop-save it started was pending when it was closed.
C25_ClosedSessionNeverChangesProductImage ==
  [][\A i \in DOMAIN saveCalls :
       (~saveCalls[i].live /\ \E encoded \in BOOLEAN : SaveSettle(i, encoded))
         => productImage' = productImage]_vars

\* C26: when an image request starts, no prompt request is pending, and the
\* prompt it sends is the one synthesized for the settings and the style
\* image selected now, unless the user typed it.
C26_GenerateSendsTheCurrentPrompt ==
  [][(HandleGenerateImage /\ Len(editCalls') > Len(editCalls))
       => /\ promptCalls = <<>>
          /\ \/ editCalls'[Len(editCalls')].prompt = ManualPrompt
             \/ editCalls'[Len(editCalls')].prompt = PromptText(PromptCall(PromptDeps))]_vars

\* C27: if every request and every crop encode eventually resolves or
\* rejects, each busy flag that is set is eventually cleared:
\* isGeneratingImage, isSaving and isGeneratingPrompt each return to false,
\* after success and after failure.
C27_BusyFlagsAreEventuallyCleared ==
  /\ isGeneratingImage ~> ~isGeneratingImage
  /\ isSaving ~> ~isSaving
  /\ isGeneratingPrompt ~> ~isGeneratingPrompt

\* an image request, a crop-save and a prompt request are pending together
C27_Witness ==
  /\ isGeneratingImage /\ editCalls # <<>>
  /\ isSaving /\ saveCalls # <<>>
  /\ isGeneratingPrompt /\ promptCalls # <<>>

====
